---- MODULE Spec2Model ----
(***************************************************************************)
(* pr-duration: pull-request discovery (fetchPullRequests with its         *)
(* queryability probes and its pagination loop), ready-time resolution     *)
(* (fetchReadyTime), duration aggregation (calculateAverageDuration) and   *)
(* the two command-line entry points (the CLI main that imports            *)
(* businessLogic.js, and the self-contained main of src/index.js).         *)
(*                                                                         *)
(* Every remote call is two steps: the call is issued (it joins inflight)  *)
(* and later the remote answers (a ...Response action, which also runs the *)
(* whole continuation of the awaiting code up to its next await).          *)
(* Text is modelled as sequences: a user name is a sequence of character   *)
(* codes, a message is a sequence of fragments.  Instants are milliseconds *)
(* counted from a base instant.  An optional value is <<>> or <<v>>.       *)
(***************************************************************************)
EXTENDS Integers, Sequences, FiniteSets, TLC

\* ------------------------------------------------------------- bounds
MaxUsers == 2   \* longest list of requested user names
MaxPages == 2   \* the remote returns a short page at this page at the latest
MaxItems == 2   \* longest list of reference items given to the aggregator

\* ---------------------------------------------------- program constants
perPage == 100
MsPerHour == 3600000
MsPerDay == 86400000

\* ------------------------------------------------------------ optionals
None == <<>>
Some(x) == <<x>>
IsSome(o) == Len(o) > 0
Get(o) == o[1]

\* The truthiness of an optional text: it is there, and it is not the
\* empty text (empty being the empty text of its type).
Truthy(v, empty) == IsSome(v) /\ Get(v) # empty

\* ----------------------------------------------------------------- text
\* "Al", "al", "bo" as character codes.
Names == { <<65, 108>>, <<97, 108>>, <<98, 111>> }

\* The lower case of a character of Latin-1 (codes 0..255), the alphabet
\* of the names modelled: A-Z, and the letters 192..222 but the sign 215.
Lower(c) ==
  IF c \in 65..90 \/ (c \in 192..222 /\ c # 215) THEN c + 32 ELSE c

toLowerCase(s) == [i \in DOMAIN s |-> Lower(s[i])]

includes(seq, x) == \E i \in DOMAIN seq : seq[i] = x

ListedPhrase == "The listed users cannot be searched"

\* ------------------------------------------------------ remote answers
\* What the search endpoint may answer to a probe: success, or an error
\* with a status and a message.
ProbeResponses ==
  { [status |-> 200, message |-> <<>>],
    [status |-> 422, message |-> <<"Validation Failed: ", ListedPhrase>>],
    [status |-> 422, message |-> <<"Validation Failed">>],
    [status |-> 403, message |-> <<ListedPhrase, " (forbidden)">>],
    [status |-> 500, message |-> <<"Server Error">>] }

RemoteError == [status |-> 500, message |-> <<"Server Error">>]

\* ------------------------------------------- validateQueryableAuthor
Returned(v) == [kind |-> "return", val |-> v, error |-> None]
Threw(e) == [kind |-> "throw", val |-> FALSE, error |-> Some(e)]

MkError(msg, user) == [message |-> msg, user |-> user]

IsUnsearchableMutant(resp) == resp.status = 422

IsUnsearchable(resp) ==
  resp.status = 422 /\ includes(resp.message, ListedPhrase)

validateQueryableAuthor(username, resp) ==
  IF resp.status = 200
    THEN Returned(TRUE)
    ELSE IF IsUnsearchable(resp)
      THEN Returned(FALSE)
      ELSE Threw(MkError(<<"Error checking queryability of user ">> \o resp.message,
                         Some(username)))

\* --------------------------------------------------------- search query
\* A Date of the search window: the UTC day d it falls on (counted from
\* the base day) and the milliseconds ms elapsed of that day.  A span of
\* time is written the same way, as whole days and milliseconds.
Instant(d, ms) == [d |-> d + (ms \div MsPerDay), ms |-> ms % MsPerDay]

\* since.toISOString().split('T')[0]: the UTC day of an instant.
DayOf(t) == t.d

\* A repository is absent, the empty text, a bare name or owner/name.
Repos == { None, Some(<<>>), Some(<<"web">>), Some(<<"acme", "/", "web">>) }

\* if (repo) { ... } else { query += ` org:${org}` }
ScopeOf(org, repo) ==
  IF Truthy(repo, <<>>)
    THEN IF includes(Get(repo), "/")
           THEN [kind |-> "repo", path |-> Get(repo)]
           ELSE [kind |-> "repo", path |-> <<org, "/">> \o Get(repo)]
    ELSE [kind |-> "org", path |-> <<org>>]

\* The query before the author clause: type:pr is:merged merged:... scope.
BaseQuery(a) ==
  [range |-> IF IsSome(a.until)
               THEN <<DayOf(a.since), DayOf(Get(a.until))>>
               ELSE <<DayOf(a.since)>>,
   scope |-> ScopeOf(a.org, a.repo),
   authors |-> None,
   paren |-> FALSE]

\* The OR-combined author clause, parenthesized for more than one user.
WithAuthors(q, us) == [q EXCEPT !.authors = Some(us), !.paren = Len(us) > 1]

\* allPublic.every((isPublic) => isPublic)
every(results) == \A i \in DOMAIN results : results[i]

QueryAfterProbes(q, us, results) ==
  IF every(results) THEN WithAuthors(q, us) ELSE q

FilterByAuthorMutant(items, us) ==
  LET Test(pr) == includes(us, pr.login)
  IN  SelectSeq(items, Test)

\* prs.filter((pr) => usernames.map(lower).includes(pr.user.login.toLowerCase()))
FilterByAuthor(items, us) ==
  LET lows == [i \in DOMAIN us |-> toLowerCase(us[i])]
      Test(pr) == includes(lows, toLowerCase(pr.login))
  IN  SelectSeq(items, Test)

FetchResultMutant(items, us, results) == items

\* Lines 124-129: what fetchPullRequests returns once the loop has ended.
FetchResult(items, us, results) ==
  IF ~every(results) THEN FilterByAuthor(items, us) ELSE items

\* ------------------------------------------------------ the remote side
\* The hosting service holds an endless stream of merged pull requests whose
\* authors alternate between the two logins of the world's pattern; pull
\* request j has url j.  A query
\* with an author clause selects the pull requests of those authors (the
\* service compares logins without regard to case); a page is a run of the
\* selected stream.
Patterns == Names \X Names

AuthorAt(pat, j) == pat[((j - 1) % Len(pat)) + 1]

QueryAuthors(q) == IF IsSome(q.authors) THEN Get(q.authors) ELSE <<>>

RemoteMatches(q, login) ==
  \/ QueryAuthors(q) = <<>>
  \/ \E i \in DOMAIN QueryAuthors(q) :
        toLowerCase(QueryAuthors(q)[i]) = toLowerCase(login)

MatchingSlots(q, pat) == { i \in DOMAIN pat : RemoteMatches(q, pat[i]) }

\* The url of the k-th pull request of the stream whose authors are those
\* of the pattern's slots (a non-empty set of positions in the pattern).
SelectedUrl(slots, len, k) ==
  LET m == Cardinality(slots)
      round == (k - 1) \div m
      nth == ((k - 1) % m) + 1
      slot == CHOOSE i \in slots : Cardinality({ s \in slots : s <= i }) = nth
  IN  round * len + slot

Item(pat, j) == [url |-> j, login |-> AuthorAt(pat, j)]

\* The n items of page p of the pull requests that query q selects.
RemotePage(q, pat, p, n) ==
  LET slots == MatchingSlots(q, pat)
  IN  [k \in 1..n |->
         Item(pat, SelectedUrl(slots, Len(pat), (p - 1) * perPage + k))]

\* Page sizes the search endpoint answers with.  A direct call of
\* fetchPullRequests sees the sizes around the page size; a whole run of
\* main is explored with short result lists.
NoItemsField == 0 - 1
PageSizes(e) ==
  IF e = "fetch" THEN {NoItemsField, 0, 1, perPage - 1, perPage}
                 ELSE {NoItemsField} \cup 0..MaxItems

\* ------------------------------------------------------- fetchReadyTime
Hours(n) == n * MsPerHour

Event(kind, t) == [event |-> kind, created_at |-> t]

\* Timelines the timeline endpoint answers with (in chronological order).
Timelines ==
  { <<>>,
    <<Event("labeled", Hours(1))>>,
    <<Event("ready_for_review", Hours(2))>>,
    <<Event("labeled", Hours(1)), Event("ready_for_review", Hours(2)),
      Event("convert_to_draft", Hours(3)), Event("ready_for_review", Hours(5))>>,
    <<Event("ready_for_review", Hours(7))>> }

IsReady(e) == e.event = "ready_for_review"

findReadyMutant(events) ==
  LET hits == { i \in DOMAIN events : IsReady(events[i]) }
  IN  IF hits = {} THEN None
      ELSE Some(events[CHOOSE i \in hits : \A j \in hits : j <= i])

\* events.find((e) => e.event === 'ready_for_review')
findReady(events) ==
  LET hits == { i \in DOMAIN events : IsReady(events[i]) }
  IN  IF hits = {} THEN None
      ELSE Some(events[CHOOSE i \in hits : \A j \in hits : i <= j])

fetchReadyTime(events, fallbackCreatedAt) ==
  LET readyEvent == findReady(events)
  IN  IF IsSome(readyEvent) THEN Get(readyEvent).created_at
                            ELSE fallbackCreatedAt

\* --------------------------------------------- calculateAverageDuration
\* Pull-request details the detail endpoint answers with; one was created
\* 54 seconds (0.015 hours) before the fourth hour.
Details ==
  [merged_at : {None, Some(Hours(4)), Some(Hours(6))},
   created_at : {0, Hours(4) - 54000}]

\* ------------------------------------------------------------- numbers
\* A natural number of any size: its digits in base 2^15, the lowest
\* first, without leading zeros.
Base == 2^15

Limb(a, i) == IF i \in DOMAIN a THEN a[i] ELSE 0

BNorm(a) ==
  LET nz == { i \in DOMAIN a : a[i] # 0 }
  IN  IF nz = {} THEN <<>>
      ELSE SubSeq(a, 1, CHOOSE i \in nz : \A j \in nz : j <= i)

BFromInt(n) == BNorm(<<n % Base, (n \div Base) % Base, n \div (Base * Base)>>)

BToInt(a) == Limb(a, 1) + Base * Limb(a, 2) + Base * Base * Limb(a, 3)

RECURSIVE BAddFrom(_, _, _, _)
BAddFrom(a, b, i, c) ==
  IF i > Len(a) /\ i > Len(b) THEN (IF c = 0 THEN <<>> ELSE <<c>>)
  ELSE LET t == Limb(a, i) + Limb(b, i) + c
       IN  <<t % Base>> \o BAddFrom(a, b, i + 1, t \div Base)

BAdd(a, b) == BNorm(BAddFrom(a, b, 1, 0))

\* a - b, for a >= b.
RECURSIVE BSubFrom(_, _, _, _)
BSubFrom(a, b, i, w) ==
  IF i > Len(a) THEN <<>>
  ELSE LET t == Limb(a, i) - Limb(b, i) - w
       IN  <<t % Base>> \o BSubFrom(a, b, i + 1, IF t < 0 THEN 1 ELSE 0)

BSub(a, b) == BNorm(BSubFrom(a, b, 1, 0))

BLess(a, b) ==
  IF Len(a) # Len(b) THEN Len(a) < Len(b)
  ELSE \E i \in DOMAIN a :
         a[i] < b[i] /\ \A j \in (i + 1)..Len(a) : a[j] = b[j]

\* a * k, for 0 < k < 2^15.
RECURSIVE BMulFrom(_, _, _, _)
BMulFrom(a, k, i, c) ==
  IF i > Len(a) THEN (IF c = 0 THEN <<>> ELSE <<c>>)
  ELSE LET t == a[i] * k + c
       IN  <<t % Base>> \o BMulFrom(a, k, i + 1, t \div Base)

BMul(a, k) == BNorm(BMulFrom(a, k, 1, 0))

\* The quotient and the remainder of a by d, for 0 < d <= 2^15.
RECURSIVE BDivFrom(_, _, _, _)
BDivFrom(a, d, i, r) ==
  IF i = 0 THEN [q |-> <<>>, r |-> r]
  ELSE LET t == r * Base + a[i]
           rest == BDivFrom(a, d, i - 1, t % d)
       IN  [q |-> Append(rest.q, t \div d), r |-> rest.r]

BDiv(a, d) ==
  LET x == BDivFrom(a, d, Len(a), 0)
  IN  [q |-> BNorm(x.q), r |-> x.r]

\* a * 2^s and the integer part of a / 2^s.
BShl(a, s) ==
  IF a = <<>> THEN <<>>
  ELSE [i \in 1..(s \div 15) |-> 0] \o BMul(a, 2^(s % 15))

BShr(a, s) == BDiv(SubSeq(a, (s \div 15) + 1, Len(a)), 2^(s % 15)).q

\* The number of binary digits of a.
BitLen(a) ==
  IF a = <<>> THEN 0
  ELSE 15 * (Len(a) - 1) + Cardinality({ i \in 0..14 : 2^i <= a[Len(a)] })

\* A Number (an IEEE 754 double): its sign and its value m * 2^e, m of 53
\* binary digits; zero has no digits.
Zero == [neg |-> FALSE, m |-> <<>>, e |-> 0]

\* The Number nearest to m * 2^e, a tie going to the even one: of the
\* len - 53 digits dropped, the first is the half and the others tell
\* whether there is more than the half.
RoundToNumber(neg, m, e) ==
  LET len == BitLen(m)
      s == len - 53
      q2 == BShr(m, s - 1)
      q == BShr(q2, 1)
      half == Limb(q2, 1) % 2 = 1
      more == \/ \E i \in 1..((s - 1) \div 15) : m[i] # 0
              \/ m[((s - 1) \div 15) + 1] % (2^((s - 1) % 15)) # 0
      up == half /\ (more \/ Limb(q, 1) % 2 = 1)
      q1 == IF up THEN BAdd(q, <<1>>) ELSE q
  IN  IF m = <<>> THEN Zero
      ELSE IF len <= 53
        THEN [neg |-> neg, m |-> BShl(m, 53 - len), e |-> e - (53 - len)]
      ELSE IF BitLen(q1) = 54
        THEN [neg |-> neg, m |-> BShr(q1, 1), e |-> e + s + 1]
      ELSE [neg |-> neg, m |-> q1, e |-> e + s]

\* An integer as a Number.
ToNumber(n) == RoundToNumber(n < 0, BFromInt(IF n < 0 THEN 0 - n ELSE n), 0)

\* x / d for an integer d > 0 whose odd part is below 2^15 (the hour in
\* milliseconds is 2^7 * 28125; a count): the division by the power of two
\* is exact, the one by the odd part is rounded once, its remainder
\* entering the rounding as a last digit.
Divide(x, d) ==
  LET t == Cardinality({ k \in 1..30 : d % (2^k) = 0 })
      r == BDiv(BShl(x.m, 30), d \div (2^t))
      q == BAdd(BMul(r.q, 2), IF r.r = 0 THEN <<>> ELSE <<1>>)
  IN  IF x.m = <<>> THEN x
      ELSE RoundToNumber(x.neg, q, x.e - 31 - t)

\* x + y
Plus(x, y) ==
  LET e == IF x.e < y.e THEN x.e ELSE y.e
      a == BShl(x.m, x.e - e)
      b == BShl(y.m, y.e - e)
  IN  IF x.m = <<>> THEN y
      ELSE IF y.m = <<>> THEN x
      ELSE IF x.neg = y.neg THEN RoundToNumber(x.neg, BAdd(a, b), e)
      ELSE IF a = b THEN Zero
      ELSE IF BLess(a, b) THEN RoundToNumber(y.neg, BSub(b, a), e)
      ELSE RoundToNumber(x.neg, BSub(a, b), e)

\* The text x.toFixed(2): a sign and a number n of hundredths, n / 100
\* being as near to the value of |x| as can be and the larger one of two
\* that are equally near; "-0.00" is a negative sign with n = 0.
Fixed(neg, n) == [neg |-> neg, n |-> n]

toFixed2(x) ==
  LET n == IF x.e >= 0
             THEN BShl(BMul(x.m, 100), x.e)
             ELSE BShr(BAdd(BMul(x.m, 200), BShl(<<1>>, 0 - x.e)), 1 - x.e)
  IN  IF x.m = <<>> THEN Fixed(FALSE, 0) ELSE Fixed(x.neg, BToInt(n))

\* durationMs / (1000 * 60 * 60)
durationHours(ms) == Divide(ToNumber(ms), MsPerHour)

durationMsMutant(mergeTime, readyTime) ==
  IF mergeTime < readyTime THEN 0 ELSE mergeTime - readyTime

\* const durationMs = mergeTime - readyTime
durationMs(mergeTime, readyTime) == mergeTime - readyTime

DurationRecord(url, readyTime, mergeTime, hours) ==
  [url |-> url, readyDate |-> readyTime, mergedDate |-> mergeTime,
   durationHours |-> toFixed2(hours)]

\* ---------------------------------------------------------------- state
VARIABLES
  entry,        \* how the code is entered: "fetch", "calc", "cli", "index"
  opts,         \* the command-line options of a run of main
  world,        \* what the remote holds: the authors' pattern, the caller's login
  env,          \* the environment of the process: GITHUB_TOKEN
  args,         \* org, repo, since, until of fetchPullRequests
  usernames,    \* the usernames argument of fetchPullRequests
  logProgress,  \* the progress-logging flag
  pc,           \* where the code is suspended or has ended
  probes,       \* the promise of each validateQueryableAuthor call
  allPublic,    \* the gathered probe results
  query,        \* the search query
  page,         \* the page last requested
  prs,          \* the items accumulated by the pagination loop
  prItems,      \* the list the aggregator walks
  idx,          \* the position of the aggregator in prItems
  cur,          \* the detail of the item whose timeline is awaited
  totalDurationHours, \* a Number
  count,
  prDataList,
  seen,         \* history: the details received, in order
  lastReady,    \* history: the last call of fetchReadyTime, with its result
  inflight,     \* the remote calls issued and not yet answered
  log,          \* every remote call issued, in order
  out,          \* the lines written to the console
  exitCode,     \* the exit status once the process has ended
  error,        \* the error thrown to the caller or caught by main
  result        \* the value returned to a direct caller

constVars == <<entry, opts, world, env>>
setupVars == <<args, usernames, logProgress>>
fetchVars == <<probes, allPublic, query, page, prs>>
aggVars == <<prItems, idx, cur, totalDurationHours, count, prDataList, seen, lastReady>>
callVars == <<inflight, log>>
ctlVars == <<pc, out, exitCode, error, result>>
vars == <<constVars, setupVars, fetchVars, aggVars, callVars, ctlVars>>

\* const token = options.token
token == opts.token

\* The credential a request carries.  businessLogic.js creates its client
\* without one and passes the token with each request, except in
\* validateQueryableAuthor, which is given none; index.js creates its
\* client with the token.
Credential(kind) ==
  IF entry # "index" /\ kind = "probe" THEN None ELSE token

Call(kind, i) == [kind |-> kind, idx |-> i, auth |-> Credential(kind)]

Info(text) == [kind |-> "info", text |-> text]

\* --------------------------------------------------- how a step can end
\* The code suspends at an await.
Suspend(newpc, out0) ==
  /\ pc' = newpc
  /\ out' = out0
  /\ UNCHANGED <<exitCode, error, result>>

\* A direct call returns v to its caller.
ReturnToCaller(v, out0) ==
  /\ pc' = "returned"
  /\ result' = Some(v)
  /\ out' = out0
  /\ UNCHANGED <<exitCode, error>>

\* An error leaves the running function.  A direct caller receives it; the
\* CLI main catches it, reports it and calls process.exit(1); the main of
\* index.js catches it and reports it, and the process then ends normally.
Throw(err, out0) ==
  /\ error' = Some(err)
  /\ result' = result
  /\ IF entry \in {"fetch", "calc"}
       THEN /\ pc' = "threw"
            /\ out' = out0
            /\ exitCode' = exitCode
       ELSE /\ out' = Append(out0, [kind |-> "error", message |-> err.message])
            /\ IF entry = "cli"
                 THEN pc' = "exited" /\ exitCode' = Some(1)
                 ELSE pc' = "done" /\ exitCode' = Some(0)

\* ------------------------------------------------------ the tail of main
ShouldAverageMutant(cnt) == cnt >= 0

\* if (count > 0)
ShouldAverage(cnt) == cnt > 0

\* totalDurationHours / count, then toFixed(2); a division by zero gives
\* NaN or an infinity, which is None here.
Average(total, cnt) ==
  IF cnt = 0 THEN None ELSE Some(toFixed2(Divide(total, cnt)))

\* index.js exports only for --export json; the CLI main for any --export.
Exports(e, o) ==
  IF e = "index" THEN o.export = Some("json")
                 ELSE Truthy(o.export, "")

MainTail(total, cnt, list, out0) ==
  /\ pc' = "done"
  /\ exitCode' = Some(0)
  /\ UNCHANGED <<error, result>>
  /\ out' =
       IF ShouldAverage(cnt)
         THEN IF Exports(entry, opts)
                THEN Append(out0, [kind |-> "export", format |-> Get(opts.export),
                                   average |-> Average(total, cnt),
                                   pullRequests |-> list])
                ELSE Append(out0, [kind |-> "average",
                                   average |-> Average(total, cnt),
                                   count |-> cnt])
         ELSE IF ~Exports(entry, opts)
                THEN Append(out0, Info("No pull requests found in the specified period."))
                ELSE out0

\* ------------------------------------------------------- the aggregator
AggReturn(total, cnt, list, out0) ==
  IF entry = "calc"
    THEN ReturnToCaller([totalDurationHours |-> total, count |-> cnt,
                         prDataList |-> list], out0)
    ELSE MainTail(total, cnt, list, out0)

DetailCallsMutant(items, i) == { Call("detail", k) : k \in i..Len(items) }

\* for (const prItem of prItems) { ... await octokit.request(`GET ${prUrl}`)
\* ... }: reaching item i issues the detail call of item i alone.
DetailCalls(items, i) == { Call("detail", i) }

\* The loop reaches position i of items with the given accumulators.
AggStep(items, i, total, cnt, list, out0, infl, lg) ==
  /\ idx' = i
  /\ totalDurationHours' = total
  /\ count' = cnt
  /\ prDataList' = list
  /\ cur' = None
  /\ IF i > Len(items)
       THEN /\ inflight' = infl
            /\ log' = lg
            /\ AggReturn(total, cnt, list, out0)
       ELSE /\ inflight' = infl \cup DetailCalls(items, i)
            /\ log' = Append(lg, Call("detail", i))
            /\ Suspend("await_detail", out0)

\* calculateAverageDuration(prItems, token, logProgress) is called.
CalcCall ==
  /\ pc = "call_calc"
  /\ AggStep(prItems, 1, Zero, 0, <<>>, out, inflight, log)
  /\ UNCHANGED <<prItems, seen, lastReady, constVars, setupVars, fetchVars>>

\* if (!prData.merged_at) continue;
IsMerged(d) == IsSome(d.merged_at)

\* The detail of item idx arrives.
DetailResponse ==
  /\ pc = "await_detail"
  /\ Call("detail", idx) \in inflight
  /\ \E d \in Details :
       LET infl == inflight \ {Call("detail", idx)}
       IN  /\ seen' = Append(seen, d)
           /\ IF ~IsMerged(d)
                THEN AggStep(prItems, idx + 1, totalDurationHours, count,
                             prDataList, out, infl, log)
                ELSE /\ cur' = Some(d)
                     /\ inflight' = infl \cup {Call("timeline", idx)}
                     /\ log' = Append(log, Call("timeline", idx))
                     /\ Suspend("await_timeline", out)
                     /\ UNCHANGED <<idx, totalDurationHours, count, prDataList>>
  /\ UNCHANGED <<prItems, lastReady, constVars, setupVars, fetchVars>>

\* new Date(prData.merged_at); a missing merged_at gives the epoch.
MergeTimeOf(d) == IF IsSome(d.merged_at) THEN Get(d.merged_at) ELSE 0

\* The timeline of item idx arrives: fetchReadyTime returns, the record is
\* added, and the loop goes on to the next item.
TimelineResponse ==
  /\ pc = "await_timeline"
  /\ Call("timeline", idx) \in inflight
  /\ \E events \in Timelines :
       LET d == Get(cur)
           mergeTime == MergeTimeOf(d)
           readyTime == fetchReadyTime(events, d.created_at)
           hours == durationHours(durationMs(mergeTime, readyTime))
           rec == DurationRecord(prItems[idx].url, readyTime, mergeTime, hours)
           out0 == IF logProgress
                     THEN Append(out, [kind |-> "progress", url |-> prItems[idx].url,
                                       durationHours |-> rec.durationHours])
                     ELSE out
       IN  /\ lastReady' = Some([events |-> events,
                                  fallbackCreatedAt |-> d.created_at,
                                  readyTime |-> readyTime])
           /\ AggStep(prItems, idx + 1,
                      Plus(totalDurationHours, hours),
                      count + 1, Append(prDataList, rec), out0,
                      inflight \ {Call("timeline", idx)}, log)
  /\ UNCHANGED <<prItems, seen, constVars, setupVars, fetchVars>>

\* --------------------------------------------------- fetchPullRequests
\* The promise of one validateQueryableAuthor call: pending, or settled with
\* the outcome o of the call on the response resp it received.
Pending == [kind |-> "pending", val |-> FALSE, error |-> None, resp |-> None]
Settled(o, resp) ==
  [kind |-> o.kind, val |-> o.val, error |-> o.error, resp |-> Some(resp)]

GatheredMutant(ps) == \E i \in DOMAIN ps : ps[i].kind = "return"

\* await Promise.all(...): resumes once every probe has returned a value.
Gathered(ps) == \A i \in DOMAIN ps : ps[i].kind = "return"

\* Requests page p of query q.
SearchIssue(q, p, infl, lg) ==
  /\ query' = q
  /\ page' = p
  /\ inflight' = infl \cup {Call("search", p)}
  /\ log' = Append(lg, Call("search", p))

\* Lines 93-116: the probe results are in; the author clause is decided and
\* the first page is requested.
AfterProbes(us, results, q0, infl, lg, out0) ==
  /\ allPublic' = Some(results)
  /\ prs' = <<>>
  /\ SearchIssue(QueryAfterProbes(q0, us, results), 1, infl, lg)
  /\ Suspend("await_search", out0)

\* Lines 72-91: the query is built and every probe is issued; with no
\* user names Promise.all resolves at once.
FetchBegin(us, a, out0, infl, lg) ==
  /\ usernames' = us
  /\ args' = a
  /\ UNCHANGED aggVars
  /\ IF us = <<>>
       THEN /\ probes' = <<>>
            /\ AfterProbes(us, <<>>, BaseQuery(a), infl, lg, out0)
       ELSE /\ probes' = [i \in DOMAIN us |-> Pending]
            /\ inflight' = infl \cup { Call("probe", i) : i \in DOMAIN us }
            /\ log' = lg \o [i \in DOMAIN us |-> Call("probe", i)]
            /\ query' = BaseQuery(a)
            /\ UNCHANGED <<allPublic, page, prs>>
            /\ Suspend("await_probes", out0)

\* fetchPullRequests(usernames, org, repo, since, until, token) is called.
FetchCall ==
  /\ pc = "call_fetch"
  /\ FetchBegin(usernames, args, out, inflight, log)
  /\ UNCHANGED <<constVars, logProgress>>

\* The answer to the probe of user i arrives.  A probe that throws rejects
\* Promise.all at once, while the other probes may still be outstanding.
ProbeResponse ==
  \E i \in DOMAIN usernames : \E resp \in ProbeResponses :
    /\ Call("probe", i) \in inflight
    /\ LET o == validateQueryableAuthor(usernames[i], resp)
           ps == [probes EXCEPT ![i] = Settled(o, resp)]
           infl == inflight \ {Call("probe", i)}
       IN  /\ probes' = ps
           /\ IF pc = "await_probes" /\ o.kind = "throw"
                THEN /\ Throw(Get(o.error), out)
                     /\ inflight' = infl
                     /\ UNCHANGED <<log, allPublic, query, page, prs>>
                ELSE IF pc = "await_probes" /\ Gathered(ps)
                  THEN AfterProbes(usernames, [k \in DOMAIN ps |-> ps[k].val], query,
                                   infl, log, out)
                  ELSE /\ inflight' = infl
                       /\ UNCHANGED <<log, allPublic, query, page, prs, ctlVars>>
    /\ UNCHANGED <<constVars, setupVars, aggVars>>

\* The loop has ended with these items: fetchPullRequests returns.  A
\* direct caller gets the list; main logs the count and starts
\* calculateAverageDuration, which issues its first detail call.
FetchDone(items, infl, lg) ==
  LET res == IF IsSome(allPublic)
               THEN FetchResult(items, usernames, Get(allPublic))
               ELSE items
  IN  IF entry = "fetch"
        THEN /\ ReturnToCaller(res, out)
             /\ inflight' = infl
             /\ log' = lg
             /\ UNCHANGED aggVars
        ELSE /\ prItems' = res
             /\ UNCHANGED <<seen, lastReady>>
             /\ AggStep(res, 1, Zero, 0, <<>>,
                        IF logProgress
                          THEN Append(out, [kind |-> "found", n |-> Len(res)])
                          ELSE out,
                        infl, lg)

IsLastPageMutant(n) == n <= perPage

\* if (data.items.length < perPage) break;
IsLastPage(n) == n < perPage

\* if (!data.items || data.items.length === 0) break;
IsEmptyPage(n) == n = NoItemsField \/ n = 0

\* The answer to the search request of the current page arrives with n
\* items.  The remote has nothing to return when no author of its stream
\* matches the query, and returns a short page at page MaxPages or before.
SearchResponse ==
  /\ pc = "await_search"
  /\ Call("search", page) \in inflight
  /\ \E n \in PageSizes(entry) :
       /\ n > 0 => MatchingSlots(query, world.pattern) # {}
       /\ page >= MaxPages => n < perPage
       /\ LET items == IF n > 0 THEN RemotePage(query, world.pattern, page, n)
                                ELSE <<>>
              infl == inflight \ {Call("search", page)}
          IN  IF IsEmptyPage(n)
                THEN /\ FetchDone(prs, infl, log)
                     /\ UNCHANGED <<prs, page, query>>
                ELSE IF IsLastPage(n)
                  THEN /\ prs' = prs \o items
                       /\ FetchDone(prs \o items, infl, log)
                       /\ UNCHANGED <<page, query>>
                  ELSE /\ prs' = prs \o items
                       /\ SearchIssue(query, page + 1, infl, log)
                       /\ Suspend("await_search", out)
                       /\ UNCHANGED aggVars
  /\ UNCHANGED <<probes, allPublic, constVars, setupVars>>

\* ---------------------------------------------------- a failing remote
AwaitedKind ==
  CASE pc = "await_search" -> "search"
    [] pc = "await_detail" -> "detail"
    [] pc = "await_timeline" -> "timeline"
    [] pc = "await_auth" -> "auth"
    [] OTHER -> "none"

\* The awaited call (a search page, a detail, a timeline, the
\* authenticated-user lookup) fails: the error leaves the awaiting function.
CallFailure ==
  \E c \in inflight :
    /\ c.kind = AwaitedKind
    /\ inflight' = inflight \ {c}
    /\ Throw(MkError(RemoteError.message, None), out)
    /\ UNCHANGED <<log, constVars, setupVars, fetchVars, aggVars>>

\* ------------------------------------------------- parsePeriod, parseDate
\* A period string is a number and a unit; parse-duration knows the unit
\* or returns null (0 here: both are falsy).  The empty period string has
\* neither.
EmptyPeriod == [n |-> 0, unit |-> ""]

\* The units of parse-duration that are whole milliseconds, as a span: a
\* year is 365.25 days and a month a twelfth of it.  A unit it does not
\* know is the zero span.  (Its units below a millisecond, and the plural
\* forms it also accepts, are not among the strings modelled.)
UnitMs(unit) ==
  CASE unit \in {"y", "yr", "year"} -> Instant(365, MsPerDay \div 4)
    [] unit \in {"mo", "mth", "month"} -> Instant(30, 7 * (MsPerDay \div 16))
    [] unit \in {"w", "wk", "week"} -> Instant(7, 0)
    [] unit \in {"d", "day"} -> Instant(1, 0)
    [] unit \in {"h", "hr", "hour"} -> Instant(0, MsPerHour)
    [] unit \in {"m", "min", "minute"} -> Instant(0, 60000)
    [] unit \in {"s", "sec", "second"} -> Instant(0, 1000)
    [] unit \in {"ms", "millisecond"} -> Instant(0, 1)
    [] OTHER -> Instant(0, 0)

\* The number times the unit; the zero span is falsy, as null is.
parseDuration(p) ==
  Instant(p.n * UnitMs(p.unit).d, p.n * UnitMs(p.unit).ms)

\* new Date(Date.now() - durationMs)
parsePeriod(p, now) ==
  LET span == parseDuration(p)
  IN  IF span = Instant(0, 0)
        THEN Threw(MkError(<<"Invalid period format. Use e.g. \"2d\", \"1w\", \"3mo\", or \"1y\".">>, None))
        ELSE Returned(Instant(now.d - span.d, now.ms - span.ms))

\* A date string either names a day or is not a date (new Date gives NaN).
\* The empty date string is not a date.
EmptyDate == [text |-> "", valid |-> FALSE, day |-> 0]

parseDate(ds) ==
  IF ~ds.valid
    THEN Threw(MkError(<<"Invalid date format: ", "Use YYYY-MM-DD.">>, None))
    ELSE Returned(Instant(ds.day, 0))

\* ------------------------------------------------------------ the mains
JsString(s) == [type |-> "string", val |-> s]

\* The CLI main passes searchUser, a string, as the users argument.
UsersArgument(searchUser) == JsString(searchUser)

\* users.join and usernames.map exist on arrays only.
HasArrayMethods(v) == v.type = "array"

\* .requiredOption('-t, --token <token>', ...): parse() reports a missing
\* token and ends the process with status 1.
MissingRequired(o) ==
  IF ~IsSome(o.token)
    THEN Some("error: required option '-t, --token <token>' not specified")
    ELSE None

\* The validation without its check of the export format.
OptionErrorMutant(o) ==
  LET periodStr == Truthy(o.period, EmptyPeriod)
      startDateStr == Truthy(o.start, EmptyDate)
      endDateStr == Truthy(o.end, EmptyDate)
  IN  IF ~periodStr /\ ~startDateStr /\ ~endDateStr
        THEN Some("Either --period or --start option or --start and --end options are required.")
      ELSE IF periodStr /\ (startDateStr \/ endDateStr)
        THEN Some("The --period option cannot be used with --start or --end options.")
      ELSE IF endDateStr /\ ~startDateStr
        THEN Some("The --end option cannot be used without the --start option.")
      ELSE None

\* Lines 49-67 of the CLI: the option combinations it rejects, with the
\* message it reports.
OptionError(o) ==
  LET periodStr == Truthy(o.period, EmptyPeriod)
      startDateStr == Truthy(o.start, EmptyDate)
      endDateStr == Truthy(o.end, EmptyDate)
  IN  IF ~periodStr /\ ~startDateStr /\ ~endDateStr
        THEN Some("Either --period or --start option or --start and --end options are required.")
      ELSE IF periodStr /\ (startDateStr \/ endDateStr)
        THEN Some("The --period option cannot be used with --start or --end options.")
      ELSE IF endDateStr /\ ~startDateStr
        THEN Some("The --end option cannot be used without the --start option.")
      ELSE IF Truthy(o.export, "") /\ ~(Get(o.export) \in {"json", "csv"})
        THEN Some("Unsupported export format. Use \"json\" or \"csv\".")
      ELSE None

\* The CLI main once searchUser is known, up to its next await: the dates
\* are parsed, and loadPullRequests is called with searchUser.
CliAfterUser(user, infl, lg) ==
  LET sinceR == IF Truthy(opts.start, EmptyDate)
                  THEN parseDate(Get(opts.start))
                  ELSE parsePeriod(Get(opts.period), world.now)
      untilR == IF Truthy(opts.end, EmptyDate)
                  THEN parseDate(Get(opts.end))
                  ELSE Returned(world.now)
      lp == ~Truthy(opts.export, "")
      out1 == IF lp THEN Append(out, Info("Considering merged PRs")) ELSE out
      users == UsersArgument(user)
      stop(err, o) == /\ Throw(err, o)
                      /\ inflight' = infl
                      /\ log' = lg
                      /\ UNCHANGED <<args, usernames, fetchVars, aggVars>>
  IN  /\ logProgress' = lp
      /\ IF sinceR.kind = "throw" THEN stop(Get(sinceR.error), out)
         ELSE IF untilR.kind = "throw" THEN stop(Get(untilR.error), out)
         ELSE IF lp /\ ~HasArrayMethods(users)
           THEN stop(MkError(<<"users.join is not a function">>, None), out1)
         ELSE IF ~HasArrayMethods(users)
           THEN stop(MkError(<<"usernames.map is not a function">>, None), out1)
         ELSE FetchBegin(users.val,
                         [org |-> opts.org, repo |-> opts.repo,
                          since |-> sinceR.val, until |-> Some(untilR.val)],
                         IF lp THEN Append(out1, Info("Fetching PR stats")) ELSE out1,
                         infl, lg)

\* The main of index.js once searchUser is known, up to its next await: its
\* own fetchPullRequests puts author:<user> in the query and requests the
\* first page.
IndexAfterUser(user, infl, lg) ==
  LET lp == opts.export # Some("json")
      out1 == IF lp THEN Append(out, Info("Fetching PR stats")) ELSE out
      sinceR == parsePeriod(Get(opts.period), world.now)
      a == [org |-> opts.org, repo |-> opts.repo,
            since |-> sinceR.val, until |-> None]
  IN  /\ logProgress' = lp
      /\ IF sinceR.kind = "throw"
           THEN /\ Throw(Get(sinceR.error), out1)
                /\ inflight' = infl
                /\ log' = lg
                /\ UNCHANGED <<args, usernames, fetchVars, aggVars>>
           ELSE /\ args' = a
                /\ usernames' = <<user>>
                /\ probes' = <<>>
                /\ allPublic' = None
                /\ prs' = <<>>
                /\ SearchIssue(WithAuthors(BaseQuery(a), <<user>>), 1, infl, lg)
                /\ Suspend("await_search",
                           IF lp THEN Append(out1, Info("Considering merged PRs"))
                                 ELSE out1)
                /\ UNCHANGED aggVars

AfterUser(user, infl, lg) ==
  IF entry = "cli" THEN CliAfterUser(user, infl, lg)
                   ELSE IndexAfterUser(user, infl, lg)

\* The process starts: the CLI checks its options, then main runs up to its
\* first await.
MainStart ==
  /\ pc = "start"
  /\ IF IsSome(MissingRequired(opts))
       THEN /\ out' = Append(out, [kind |-> "error",
                                   message |-> <<Get(MissingRequired(opts))>>])
            /\ exitCode' = Some(1)
            /\ pc' = "exited"
            /\ UNCHANGED <<error, result, setupVars, fetchVars, aggVars, callVars>>
       ELSE IF entry = "cli" /\ IsSome(OptionError(opts))
       THEN /\ out' = Append(out, [kind |-> "error",
                                   message |-> <<Get(OptionError(opts))>>])
            /\ exitCode' = Some(1)
            /\ pc' = "exited"
            /\ UNCHANGED <<error, result, setupVars, fetchVars, aggVars, callVars>>
       ELSE IF Truthy(opts.user, <<>>)
         THEN AfterUser(Get(opts.user), inflight, log)
         ELSE /\ inflight' = inflight \cup {Call("auth", 0)}
              /\ log' = Append(log, Call("auth", 0))
              /\ Suspend("await_auth", out)
              /\ UNCHANGED <<setupVars, fetchVars, aggVars>>
  /\ UNCHANGED constVars

\* getAuthenticatedUser returns the caller's login.
AuthResponse ==
  /\ pc = "await_auth"
  /\ Call("auth", 0) \in inflight
  /\ AfterUser(world.login, inflight \ {Call("auth", 0)}, log)
  /\ UNCHANGED constVars

\* ------------------------------------------------------- initial states
Al == <<65, 108>>
al == <<97, 108>>
bo == <<98, 111>>

Now == Instant(10, MsPerHour)

\* The lists of up to n different elements of S.
ListsUpTo(S, n) ==
  { l \in UNION { [1..k -> S] : k \in 0..n } :
      \A i, j \in DOMAIN l : i # j => l[i] # l[j] }

Periods == { [n |-> 1, unit |-> "w"], [n |-> 0, unit |-> "d"],
             [n |-> 3, unit |-> "mo"],
             [n |-> 1, unit |-> "fortnight"], EmptyPeriod }
DateStrings == { [text |-> "1970-01-04", valid |-> TRUE, day |-> 3],
                 [text |-> "soon", valid |-> FALSE, day |-> 0],
                 EmptyDate }

Opt(S) == {None} \cup { Some(x) : x \in S }

CliOptions ==
  [org : {"acme"}, repo : {None, Some(<<"web">>)},
   period : Opt(Periods), start : Opt(DateStrings), end : Opt(DateStrings),
   user : Opt({Al}), export : Opt({"json", "csv", "xml", ""}),
   token : Opt({"T"})]

\* index.js requires --period and knows neither --start nor --end.
IndexOptions ==
  [org : {"acme"}, repo : {None, Some(<<"web">>)},
   period : { Some(x) : x \in Periods }, start : {None}, end : {None},
   user : Opt({Al}), export : Opt({"json", "csv"}),
   token : Opt({"T"})]

\* A direct call: no options, the token is the one the caller passes.
\* Command lines with a --period and a --token on which --repo or --user
\* is given the empty text.
EmptyValued(options) ==
  LET plain == { x \in options :
                   /\ x.repo = None /\ x.export = None /\ x.token # None
                   /\ x.period # None /\ x.start = None /\ x.end = None }
  IN  { [o EXCEPT !.repo = Some(<<>>)] : o \in { x \in plain : x.user # None } }
      \cup { [o EXCEPT !.user = Some(<<>>)] : o \in { x \in plain : x.user = None } }

NoOptions ==
  [org |-> "acme", repo |-> None, period |-> None, start |-> None,
   end |-> None, user |-> None, export |-> None, token |-> Some("T")]

Environments == [GITHUB_TOKEN : Opt({"E"})]
NoEnvironment == [GITHUB_TOKEN |-> None]

NoArgs == [org |-> "acme", repo |-> None, since |-> Instant(0, 0), until |-> None]

InitRest ==
  /\ probes = <<>>
  /\ allPublic = None
  /\ query = BaseQuery(NoArgs)
  /\ page = 0
  /\ prs = <<>>
  /\ idx = 0
  /\ cur = None
  /\ totalDurationHours = Zero
  /\ count = 0
  /\ prDataList = <<>>
  /\ seen = <<>>
  /\ lastReady = None
  /\ inflight = {}
  /\ log = <<>>
  /\ out = <<>>
  /\ exitCode = None
  /\ error = None
  /\ result = None

\* A direct call of fetchPullRequests.
InitFetch ==
  /\ entry = "fetch"
  /\ opts = NoOptions
  /\ env = NoEnvironment
  /\ world \in [pattern : Patterns, login : {bo}, now : {Now}]
  /\ args \in [org : {"acme"}, repo : Repos, since : {Instant(1, MsPerHour)},
               until : {None, Some(Instant(3, 0))}]
  /\ usernames \in ListsUpTo(Names, MaxUsers)
  /\ logProgress = FALSE
  /\ prItems = <<>>
  /\ pc = "call_fetch"
  /\ InitRest

\* A direct call of calculateAverageDuration.
InitCalc ==
  /\ entry = "calc"
  /\ opts = NoOptions
  /\ env = NoEnvironment
  /\ world = [pattern |-> <<al, bo>>, login |-> bo, now |-> Now]
  /\ args = NoArgs
  /\ usernames = <<>>
  /\ logProgress \in BOOLEAN
  /\ prItems \in { [k \in 1..n |-> Item(<<al, bo>>, k)] : n \in 0..MaxItems }
  /\ pc = "call_calc"
  /\ InitRest

\* A run of a main.
InitMain ==
  /\ entry \in {"cli", "index"}
  /\ opts \in IF entry = "cli"
               THEN CliOptions \cup EmptyValued(CliOptions)
               ELSE IndexOptions \cup EmptyValued(IndexOptions)
  /\ env \in IF entry = "cli" THEN Environments ELSE {NoEnvironment}
  /\ world = [pattern |-> <<al, bo>>, login |-> bo, now |-> Now]
  /\ args = NoArgs
  /\ usernames = <<>>
  /\ logProgress = FALSE
  /\ prItems = <<>>
  /\ pc = "start"
  /\ InitRest

Init == InitFetch \/ InitCalc \/ InitMain

NextFetch == FetchCall \/ ProbeResponse \/ SearchResponse \/ CallFailure

NextCalc == CalcCall \/ DetailResponse \/ TimelineResponse \/ CallFailure

NextMain ==
  \/ MainStart
  \/ AuthResponse
  \/ SearchResponse
  \/ DetailResponse
  \/ TimelineResponse
  \/ CallFailure

Next == NextFetch \/ NextCalc \/ NextMain

SpecFetch == InitFetch /\ [][NextFetch]_vars
SpecCalc == InitCalc /\ [][NextCalc]_vars
SpecMain == InitMain /\ [][NextMain]_vars
Spec == Init /\ [][Next]_vars

\* ======================================================= the properties
\* The requested user names, in lower case.
RequestedLower == { toLowerCase(usernames[i]) : i \in DOMAIN usernames }

\* The logins of items that are a requested user name, letter case aside.
RequestedLogins(items) ==
  LET lows == RequestedLower
  IN  { l \in { items[k].login : k \in DOMAIN items } : toLowerCase(l) \in lows }

\* kept is exactly the items of fetched by requested authors, in order,
\* where fetched[k] has url k: every kept item is the fetched item of its
\* url and is requested, the kept urls increase, and as many are kept as
\* are requested.
IsRequestedPart(kept, fetched) ==
  LET good == RequestedLogins(fetched)
  IN  /\ \A k \in DOMAIN fetched : fetched[k].url = k
      /\ \A j \in DOMAIN kept :
           /\ kept[j].url \in DOMAIN fetched
           /\ fetched[kept[j].url] = kept[j]
           /\ kept[j].login \in good
           /\ j > 1 => kept[j - 1].url < kept[j].url
      /\ Len(kept) = Cardinality({ k \in DOMAIN fetched : fetched[k].login \in good })

\* The search requests issued so far, in order.
SearchLog ==
  LET IsSearch(c) == c.kind = "search"
  IN  SelectSeq(log, IsSearch)

SomeNotQueryable == \E i \in DOMAIN probes : ~probes[i].val

\* C1: every item fetchPullRequests returns for a non-empty list of user
\* names has an author login that is, letter case aside, one of the
\* requested names, on the author-clause path and on the post-filter path.
C1_ReturnedAuthorsRequested ==
  (entry = "fetch" /\ pc = "returned" /\ usernames # <<>>) =>
    LET res == Get(result)
        good == RequestedLogins(res)
    IN  \A k \in DOMAIN res : res[k].login \in good

\* fetchPullRequests has returned on the post-filter path, keeping some of
\* the fetched items and dropping others.
C1_Witness ==
  /\ entry = "fetch" /\ pc = "returned" /\ usernames # <<>>
  /\ SomeNotQueryable
  /\ Len(Get(result)) > 0
  /\ Len(Get(result)) < Len(prs)

\* C2: when some requested user is not queryable the query has no author
\* clause and the returned list is exactly the fetched items whose login is
\* requested (letter case aside), in fetch order; when all are queryable
\* the query has the OR-combined author clause (parenthesized for more than
\* one user) and the fetched items are returned as they are.
C2_FilteringPaths ==
  (entry = "fetch" /\ pc = "returned") =>
    IF SomeNotQueryable
      THEN /\ ~IsSome(query.authors)
           /\ IsRequestedPart(Get(result), prs)
      ELSE /\ query.authors = Some(usernames)
           /\ query.paren = (Len(usernames) > 1)
           /\ Get(result) = prs

\* The post-filter kept an item whose login differs from the requested name
\* in letter case only, and dropped another item.
C2_Witness ==
  /\ entry = "fetch" /\ pc = "returned"
  /\ SomeNotQueryable
  /\ Len(Get(result)) < Len(prs)
  /\ \E k \in DOMAIN Get(result) : ~includes(usernames, Get(result)[k].login)

\* C3: the loop requests pages 1, 2, 3, ... in order; while a page is
\* awaited every earlier page was full (100 items), so the loop stops at the
\* first empty or short page; when it has ended the number of requests is
\* one more than the number of full pages received (100 + 0 items: two
\* requests; 100 + 1 items: two requests, 101 items; fewer than 100: one
\* request); and the accumulated items are the items of the requested
\* pages, every one of them, in order.
C3_Pagination ==
  entry = "fetch" =>
    /\ SearchLog = [p \in 1..page |-> Call("search", p)]
    /\ pc = "await_search" =>
         /\ Len(prs) = (page - 1) * perPage
         /\ Call("search", page) \in inflight
    /\ pc = "returned" => page = (Len(prs) \div perPage) + 1
    /\ LET slots == MatchingSlots(query, world.pattern)
       IN  \A k \in DOMAIN prs :
             prs[k] = Item(world.pattern, SelectedUrl(slots, Len(world.pattern), k))

\* The loop ended after two requests with 101 items.
C3_Witness ==
  /\ entry = "fetch" /\ pc = "returned"
  /\ page = 2
  /\ Len(SearchLog) = 2
  /\ Len(prs) = perPage + 1

ReadyHits(events) == { i \in DOMAIN events : events[i].event = "ready_for_review" }

\* C4: fetchReadyTime returns the timestamp of the first ready_for_review
\* event of the timeline when there is one (the earlier one of two), and
\* the fallback creation instant when there is none; the aggregator
\* records that instant as the ready date.
C4_ReadyTime ==
  IsSome(lastReady) =>
    LET r == Get(lastReady)
        hits == ReadyHits(r.events)
    IN  /\ hits # {} =>
             \E i \in hits :
               /\ \A j \in hits : i <= j
               /\ r.readyTime = r.events[i].created_at
               /\ \A j \in hits : r.readyTime <= r.events[j].created_at
        /\ hits = {} => r.readyTime = r.fallbackCreatedAt
        /\ prDataList # <<>>
        /\ prDataList[Len(prDataList)].readyDate = r.readyTime

\* fetchReadyTime answered on a timeline with two ready_for_review events.
C4_Witness ==
  /\ IsSome(lastReady)
  /\ Cardinality(ReadyHits(Get(lastReady).events)) = 2
  /\ Get(lastReady).readyTime = Hours(2)

\* The signed differences merge instant - ready instant of the records,
\* in hours, added up as Numbers in the order of the list.
RECURSIVE SumDurations(_)
SumDurations(list) ==
  IF list = <<>> THEN Zero
  ELSE LET last == list[Len(list)]
       IN  Plus(SumDurations(SubSeq(list, 1, Len(list) - 1)),
                Divide(ToNumber(last.mergedDate - last.readyDate), MsPerHour))

\* The same differences added up exactly, in milliseconds.
RECURSIVE SumMs(_)
SumMs(list) ==
  IF list = <<>> THEN 0
  ELSE (Head(list).mergedDate - Head(list).readyDate) + SumMs(Tail(list))

\* Every record is of a whole number of hours.
WholeHours(list) ==
  \A i \in DOMAIN list : (list[i].mergedDate - list[i].readyDate) % MsPerHour = 0

\* The positions among the first k items whose detail was merged, in order.
RECURSIVE MergedPositions(_)
MergedPositions(k) ==
  IF k = 0 THEN <<>>
  ELSE IF IsSome(seen[k].merged_at)
    THEN Append(MergedPositions(k - 1), k)
    ELSE MergedPositions(k - 1)

\* The merged items whose record has been added: all merged items seen,
\* but the one whose timeline is still awaited or has failed.
Recorded ==
  MergedPositions(IF idx = 0 THEN 0
                  ELSE IF idx > Len(seen) THEN Len(seen) ELSE idx - 1)

\* C5: calculateAverageDuration counts the merged items, keeps one record
\* per merged item in input order, and totals the signed differences
\* merge instant - ready instant in hours (negative ones included), which
\* for whole hours is their exact sum; an unmerged item
\* changes nothing; with no merged item it returns count 0 and total 0.
C5_Aggregate ==
  entry = "calc" =>
    /\ count = Len(prDataList)
    /\ totalDurationHours = SumDurations(prDataList)
    /\ WholeHours(prDataList) =>
         totalDurationHours = ToNumber(SumMs(prDataList) \div MsPerHour)
    /\ Len(prDataList) = Len(Recorded)
    /\ \A j \in DOMAIN prDataList :
         /\ prDataList[j].url = prItems[Recorded[j]].url
         /\ prDataList[j].mergedDate = Get(seen[Recorded[j]].merged_at)
    /\ pc = "returned" =>
         /\ Len(seen) = Len(prItems)
         /\ Get(result) = [totalDurationHours |-> totalDurationHours, count |-> count,
                           prDataList |-> prDataList]
         /\ MergedPositions(Len(seen)) = <<>> =>
              Get(result).count = 0 /\ Get(result).totalDurationHours = Zero

\* The aggregator returned after skipping an unmerged item and recording a
\* negative duration.
C5_Witness ==
  /\ entry = "calc" /\ pc = "returned"
  /\ count >= 1
  /\ count < Len(prItems)
  /\ totalDurationHours.neg

AverageLines == { i \in DOMAIN out : out[i].kind \in {"average", "export"} }

\* C6: a main prints or exports an average only when count > 0, and the
\* average it outputs comes from a division by a positive count.
C6_AverageOnlyWhenCounted ==
  entry \in {"cli", "index"} =>
    \A i \in AverageLines : count > 0 /\ IsSome(out[i].average)

\* A main printed the average of two pull requests.
C6_Witness ==
  /\ entry \in {"cli", "index"} /\ pc = "done"
  /\ count = 2
  /\ \E i \in AverageLines : out[i].kind = "average" /\ out[i].count = 2

RemoteFailed == IsSome(error) /\ Get(error).message = RemoteError.message

\* What holds of every run in which a remote call failed: the failure is
\* the last thing reported, nothing is outstanding, no average or export
\* was output.
C7_AbortsAndReports ==
  (entry \in {"cli", "index"} /\ RemoteFailed) =>
    /\ out # <<>>
    /\ out[Len(out)].kind = "error"
    /\ out[Len(out)].message = RemoteError.message
    /\ inflight = {}
    /\ AverageLines = {}
    /\ pc \in {"done", "exited"}

\* C7: when a remote call fails the run aborts at that call, the failure
\* is reported, no average and no export is output, and the process
\* signals non-zero completion.
C7_AbortOnRemoteFailure ==
  (entry \in {"cli", "index"} /\ RemoteFailed) =>
    /\ C7_AbortsAndReports
    /\ exitCode = Some(1)

IsListedRejection(r) == r.status = 422 /\ includes(r.message, ListedPhrase)

\* C8: a probe returns true when its search succeeds; it returns false
\* exactly when the search fails with status 422 and a message containing
\* 'The listed users cannot be searched'; on any other failure it throws an
\* error that carries the cause, and then fetchPullRequests throws: no
\* search page is requested and nothing is returned.
C8_ProbeOutcomes ==
  entry = "fetch" =>
    /\ \A i \in DOMAIN probes :
         probes[i].kind # "pending" =>
           LET r == Get(probes[i].resp)
               p == probes[i]
           IN  /\ r.status = 200 => (p.kind = "return" /\ p.val)
               /\ (p.kind = "return" /\ ~p.val) <=> IsListedRejection(r)
               /\ (r.status # 200 /\ ~IsListedRejection(r)) =>
                    /\ p.kind = "throw"
                    /\ Get(p.error).user = Some(usernames[i])
                    /\ SubSeq(Get(p.error).message, 2, Len(Get(p.error).message))
                         = r.message
    /\ (\E i \in DOMAIN probes : probes[i].kind = "throw") =>
         /\ pc = "threw"
         /\ SearchLog = <<>>
         /\ ~IsSome(allPublic)
         /\ ~IsSome(result)

\* A probe failed with status 422 and another message, and threw.
C8_Witness ==
  /\ entry = "fetch" /\ pc = "threw"
  /\ \E i \in DOMAIN probes :
       /\ probes[i].kind = "throw"
       /\ IsSome(probes[i].resp)
       /\ Get(probes[i].resp).status = 422

\* The calls the aggregator has issued once the details of the first k
\* items are in and their timelines asked for.
RECURSIVE ExpectedCalls(_)
ExpectedCalls(k) ==
  IF k = 0 THEN <<>>
  ELSE ExpectedCalls(k - 1) \o <<Call("detail", k)>>
         \o (IF IsSome(seen[k].merged_at) THEN <<Call("timeline", k)>> ELSE <<>>)

\* C9: the aggregator's calls are sequential and in input order: at most
\* one is outstanding; while the detail of item i is outstanding the
\* details of items 1..i-1 have returned, the timelines of the merged ones
\* have returned and their records are in the total and the count; while
\* the timeline of item i is outstanding its detail has returned.
C9_Sequential ==
  entry = "calc" =>
    /\ Cardinality(inflight) <= 1
    /\ \A i \in DOMAIN prItems :
         Call("detail", i) \in inflight =>
           /\ idx = i
           /\ Len(seen) = i - 1
           /\ log = ExpectedCalls(i - 1) \o <<Call("detail", i)>>
           /\ count = Len(MergedPositions(i - 1))
           /\ Len(prDataList) = count
           /\ totalDurationHours = SumDurations(prDataList)
    /\ \A i \in DOMAIN prItems :
         Call("timeline", i) \in inflight =>
           /\ idx = i
           /\ Len(seen) = i
           /\ log = ExpectedCalls(i)

\* The detail of the second item is outstanding after the first item, a
\* merged one, has been recorded.
C9_Witness ==
  /\ entry = "calc"
  /\ Call("detail", 2) \in inflight
  /\ count = 1
  /\ Len(seen) = 1

\* C10: the probes of all user names are issued together; the first search
\* page is requested only after every probe has returned a value; the
\* filtering path is a function of the probe results alone; and more than
\* one call is outstanding only while probes are.
C10_ProbesGathered ==
  entry = "fetch" =>
    /\ pc # "call_fetch" =>
         /\ DOMAIN probes = DOMAIN usernames
         /\ SubSeq(log, 1, Len(usernames))
              = [i \in DOMAIN usernames |-> Call("probe", i)]
    /\ SearchLog # <<>> =>
         \A i \in DOMAIN probes : probes[i].kind = "return"
    /\ IsSome(allPublic) =>
         /\ Get(allPublic) = [i \in DOMAIN probes |-> probes[i].val]
         /\ IsSome(query.authors) <=> (\A i \in DOMAIN probes : probes[i].val)
    /\ Cardinality(inflight) > 1 => \A c \in inflight : c.kind = "probe"

\* The second probe has returned before the first, which is outstanding.
C10_Witness ==
  /\ entry = "fetch" /\ pc = "await_probes"
  /\ Len(usernames) = 2
  /\ probes[1].kind = "pending"
  /\ probes[2].kind = "return"
  /\ Call("probe", 1) \in inflight


\* ------------------------------------------------------ the CLI, end to end
\* The dates of a CLI run parse.
DatesParse ==
  /\ (IF Truthy(opts.start, EmptyDate)
        THEN parseDate(Get(opts.start))
        ELSE parsePeriod(Get(opts.period), world.now)).kind = "return"
  /\ Truthy(opts.end, EmptyDate) => parseDate(Get(opts.end)).kind = "return"

\* A run of the CLI main with a single --user and accepted options that has
\* ended without a remote failure.
CliRunEnded ==
  /\ entry = "cli"
  /\ Truthy(opts.user, <<>>)
  /\ ~IsSome(OptionError(opts))
  /\ DatesParse
  /\ pc \in {"done", "exited"}
  /\ ~RemoteFailed

\* The durations recorded, in hundredths of an hour.
RecordedDurations == [i \in DOMAIN prDataList |-> prDataList[i].durationHours]

\* C11: a run of the CLI main with a single --user and no remote failure
\* ends without an error, having reported the average of the recorded
\* durations over count pull requests; durations of 2.00, 4.00 and 6.00
\* hours are reported as 4.00 hours over 3 pull requests.
C11_CliEndToEnd ==
  CliRunEnded =>
    /\ error = None
    /\ exitCode = Some(0)
    /\ count > 0 =>
         /\ AverageLines # {}
         /\ \A i \in AverageLines :
              out[i].average = Average(totalDurationHours, count)
    /\ RecordedDurations = <<Fixed(FALSE, 200), Fixed(FALSE, 400), Fixed(FALSE, 600)>> =>
         \E i \in AverageLines :
           /\ out[i].kind = "average"
           /\ out[i].average = Some(Fixed(FALSE, 400))
           /\ out[i].count = 3

\* ------------------------------------------------------- the credential
\* The credential the documentation resolves: the --token flag, and
\* GITHUB_TOKEN when there is no flag.
ResolvedToken == IF IsSome(opts.token) THEN opts.token ELSE env.GITHUB_TOKEN

\* The process was ended for want of a --token.
RejectedForToken ==
  /\ pc = "exited"
  /\ IsSome(MissingRequired(opts))
  /\ \E i \in DOMAIN out :
       out[i].kind = "error" /\ out[i].message = <<Get(MissingRequired(opts))>>

\* What the code does with the credential: --token is required, and every
\* request of a main other than a probe carries its value, whatever
\* GITHUB_TOKEN is.
C12_FlagIsTheCredential ==
  entry \in {"cli", "index"} =>
    /\ (pc # "start" /\ ~IsSome(opts.token)) => RejectedForToken
    /\ \A i \in DOMAIN log : log[i].kind # "probe" => log[i].auth = opts.token

\* C12: the credential of a run is the --token flag when given and the
\* GITHUB_TOKEN environment variable otherwise: with only the variable
\* set the run proceeds, and every remote call carries the resolved
\* credential, the flag's value when both are set.
C12_TokenPrecedence ==
  (entry = "cli" /\ IsSome(ResolvedToken) /\ pc # "start") =>
    /\ ~RejectedForToken
    /\ \A i \in DOMAIN log : log[i].auth = ResolvedToken

\* --------------------------------------------------- option validation
\* The option combinations the CLI is said to reject, an option being
\* given when it is on the command line.
InvalidCombination(o) ==
  \/ ~IsSome(o.period) /\ ~IsSome(o.start) /\ ~IsSome(o.end)
  \/ IsSome(o.period) /\ (IsSome(o.start) \/ IsSome(o.end))
  \/ IsSome(o.end) /\ ~IsSome(o.start)
  \/ IsSome(o.export) /\ Get(o.export) \notin {"json", "csv"}

\* The same combinations, an option being given when it is on the command
\* line with a value that is not empty.
InvalidNonEmptyCombination(o) ==
  LET given(v, empty) == IsSome(v) /\ Get(v) # empty
      p == given(o.period, EmptyPeriod)
      s == given(o.start, EmptyDate)
      e == given(o.end, EmptyDate)
  IN  \/ ~p /\ ~s /\ ~e
      \/ p /\ (s \/ e)
      \/ e /\ ~s
      \/ given(o.export, "") /\ Get(o.export) \notin {"json", "csv"}

\* The process reported one error and exited with status 1, and no remote
\* call was issued.
RejectedBeforeCalls ==
  /\ pc = "exited"
  /\ exitCode = Some(1)
  /\ error = None
  /\ Len(out) = 1 /\ out[1].kind = "error"
  /\ log = <<>>
  /\ inflight = {}

\* main ran: it awaits a call, or it has ended, by returning or in its
\* catch block.
ReachedMain == pc # "exited" \/ error # None

\* A run of the CLI whose command line has the required options, past
\* the validation of its options.
CliValidated == entry = "cli" /\ IsSome(opts.token) /\ pc # "start"

\* C13, amended: with the required options present, the CLI rejects an
\* invalid option combination before any remote call, an option with an
\* empty value counting as not given: it reports one error and exits with
\* status 1 without a call to any endpoint; every other combination
\* reaches main.
C13_RejectsNonEmptyInvalid ==
  CliValidated =>
    IF InvalidNonEmptyCombination(opts) THEN RejectedBeforeCalls
                                        ELSE ReachedMain /\ ~RejectedBeforeCalls

\* The CLI rejected --export xml, given with a valid --period.
C13_Witness ==
  /\ CliValidated
  /\ opts.export = Some("xml")
  /\ Truthy(opts.period, EmptyPeriod) /\ ~IsSome(opts.start) /\ ~IsSome(opts.end)
  /\ RejectedBeforeCalls
  /\ out[1].message = <<"Unsupported export format. Use \"json\" or \"csv\".">>

\* C13 as stated, an option being given when it is on the command line:
\* the CLI rejects an invalid option combination before any remote
\* call: if none of --period, --start, --end is given, or --period is
\* combined with --start or --end, or --end is given without --start, or
\* --export is given with a value other than 'json' or 'csv', the process
\* reports an error and exits with status 1 without a call to the
\* authenticated-user, search, detail or timeline endpoint; every other
\* combination reaches main.
C13_RejectsInvalidOptions ==
  CliValidated =>
    IF InvalidCombination(opts) THEN RejectedBeforeCalls
                                ELSE ReachedMain /\ ~RejectedBeforeCalls
====
